---- MODULE Spec2Model ----
(***************************************************************************)
(* A model of ts-graphql-decorator: the decorators that accumulate         *)
(* TypeConfig / FieldConfig / ArgumentConfig records in the reflection     *)
(* metadata store, and typeOf, which turns a class into an engine type.    *)
(*                                                                         *)
(* The repository holds two copies of the module: src/unnamed/part_000     *)
(* (inheritance, memoization, resolvers) and src/index.ts.  The variable   *)
(* impl says which copy is loaded; Spec runs the first, SpecIndex the      *)
(* second.                                                                 *)
(***************************************************************************)
EXTENDS Integers, Sequences, FiniteSets, TLC

VARIABLES
  impl,       \* which copy of the module is loaded: "part_000" or "index"
  meta,       \* Reflect's own META_TYPE metadata of every class
  typeCache,  \* the Map typeCache
  objects,    \* every GraphQLObjectType constructed so far, in order
  hist        \* history: the calls made so far, with their outcomes

vars == <<impl, meta, typeCache, objects, hist>>

---------------------------------------------------------------------------
(* Bounds *)

\* calls made in one run
MaxOps == 3
\* resolver calls the engine makes in one run, the last of them possibly
\* after the MaxOps calls
MaxResolves == 1

---------------------------------------------------------------------------
(* Values *)

\* JavaScript's undefined, where a string is expected; as an object key it
\* is the string "undefined"
Undefined == "undefined"

Undef == [kind |-> "undefined"]
Ctor(n) == [kind |-> "ctor", name |-> n]
Scalar(n) == [kind |-> "Scalar", name |-> n]
GraphQLList(t) == [kind |-> "List", ofType |-> t]
GraphQLNonNull(t) == [kind |-> "NonNull", ofType |-> t]
ObjectRef(id) == [kind |-> "Object", id |-> id]

GraphQLString == Scalar("String")
GraphQLInt == Scalar("Int")
GraphQLBoolean == Scalar("Boolean")
GraphQLFloat == Scalar("Float")

\* The program under decoration:
\*   class A { x: string; m(p0: number, p1: string): C }
\*   class B extends A { x: number; [s]: boolean }  (s a symbol)
\*   class C { u }                                  (no reflected type for u)
Classes == {"A", "B", "C"}
Builtins == {"String", "Number", "Boolean"}
NoClass == "none"
SymbolKeys == {"s"}

\* Object.getPrototypeOf(target); NoClass stands for _rootFunction
Parent(c) == IF c = "B" THEN "A" ELSE NoClass

\* third !== undefined: the decorator was applied to a method
IsMethod(k) == k = "m"

\* the design:* metadata the compiler emitted on (c.prototype, k) itself
OwnDesign(metaKey, c, k) ==
  CASE metaKey = "design:type" /\ c = "A" /\ k = "x" -> Ctor("String")
    [] metaKey = "design:type" /\ c = "B" /\ k = "x" -> Ctor("Number")
    [] metaKey = "design:type" /\ c = "B" /\ k = "s" -> Ctor("Boolean")
    [] metaKey = "design:returntype" /\ c = "A" /\ k = "m" -> Ctor("C")
    [] OTHER -> Undef

OwnParamTypes(c, k) ==
  IF c = "A" /\ k = "m" THEN <<Ctor("Number"), Ctor("String")>> ELSE <<>>

RECURSIVE Reflect_getMetadata(_, _, _)
\* Reflect.getMetadata walks the prototype chain of its target
Reflect_getMetadata(metaKey, c, k) ==
  IF OwnDesign(metaKey, c, k) # Undef THEN OwnDesign(metaKey, c, k)
  ELSE IF Parent(c) # NoClass THEN Reflect_getMetadata(metaKey, Parent(c), k)
  ELSE Undef

RECURSIVE paramTypes(_, _)
paramTypes(c, k) ==
  IF OwnParamTypes(c, k) # <<>> THEN OwnParamTypes(c, k)
  ELSE IF Parent(c) # NoClass THEN paramTypes(Parent(c), k)
  ELSE <<>>

\* PropertyMetadata.type / MethodMetadata.type
MemberMetadata_type(c, k, asMethod) ==
  IF asMethod THEN Reflect_getMetadata("design:returntype", c, k)
  ELSE Reflect_getMetadata("design:type", c, k)

\* ParameterMetadata.type: paramTypes[parameterIndex]
ParameterMetadata_type(c, k, i) ==
  IF i + 1 \in DOMAIN paramTypes(c, k) THEN paramTypes(c, k)[i + 1] ELSE Undef

---------------------------------------------------------------------------
(* Config records.  made counts the constructor calls that produced the    *)
(* record held under its key (a history field).                            *)

NoTypeConfig ==
  [defined |-> FALSE, made |-> 0, name |-> Undefined, description |-> Undefined,
   fields |-> <<>>, parent |-> NoClass]

\* new TypeConfig(parent); config.name = target.name
NewTypeConfig(c, parent, made) ==
  [defined |-> TRUE, made |-> made, name |-> c, description |-> Undefined,
   fields |-> <<>>, parent |-> parent]

\* new FieldConfig(propertyKey); config.type = this.type
NewFieldConfig(k, t, made) ==
  [propertyKey |-> k,
   name |-> IF k \in SymbolKeys THEN Undefined ELSE k,
   type |-> t, typeModifiers |-> <<>>, arguments |-> <<>>,
   description |-> Undefined, made |-> made]

\* new ArgumentConfig(); config.type = this.type
NewArgumentConfig(t, made) ==
  [name |-> Undefined, type |-> t, typeModifiers |-> <<>>,
   defaultValue |-> Undefined, description |-> Undefined, made |-> made]

---------------------------------------------------------------------------
(* Metadata accessors.  m is the META_TYPE store: class -> TypeConfig.     *)

\* const v = e; ... : e is evaluated once and named
With(v, F(_)) == F(v)

RECURSIVE Reflect_hasMetadata(_, _)
\* Reflect.hasMetadata(META_TYPE, target) walks the prototype chain
Reflect_hasMetadata(m, c) ==
  m[c].defined \/ (Parent(c) # NoClass /\ Reflect_hasMetadata(m, Parent(c)))

RECURSIVE Reflect_getMetadataOwner(_, _)
\* the class whose own record Reflect.getMetadata(META_TYPE, target) returns
Reflect_getMetadataOwner(m, c) ==
  IF m[c].defined \/ Parent(c) = NoClass THEN c
  ELSE Reflect_getMetadataOwner(m, Parent(c))

RECURSIVE ClassMetadata_typeConfig(_, _)
\* part_000: get typeConfig(); returns the store after the lazy creation
ClassMetadata_typeConfig(m, c) ==
  IF m[c].defined THEN m
  ELSE [(IF Parent(c) # NoClass THEN ClassMetadata_typeConfig(m, Parent(c)) ELSE m)
          EXCEPT ![c] = NewTypeConfig(c, Parent(c), m[c].made + 1)]

\* index.ts: get typeConfig(); returns the store after the lazy creation
ClassMetadata_typeConfig_index(m, c) ==
  IF Reflect_hasMetadata(m, c) THEN m
  ELSE [m EXCEPT ![c] = NewTypeConfig(c, NoClass, m[c].made + 1)]

typeConfig(m, c) ==
  IF impl = "part_000" THEN ClassMetadata_typeConfig(m, c)
  ELSE ClassMetadata_typeConfig_index(m, c)

HasField(fs, k) == \E i \in 1..Len(fs) : fs[i].propertyKey = k
FieldIndex(fs, k) == CHOOSE i \in 1..Len(fs) : fs[i].propertyKey = k

\* get fieldConfig() without the hasOwnProperty test: a new FieldConfig on
\* every access
MemberMetadata_fieldConfig_fresh(m, c, k, asMethod) ==
  With(typeConfig(m, c), LAMBDA m1 :
    With(Reflect_getMetadataOwner(m1, c), LAMBDA h :
      IF HasField(m1[h].fields, k)
      THEN [m1 EXCEPT ![h].fields[FieldIndex(m1[h].fields, k)] =
              NewFieldConfig(k, MemberMetadata_type(c, k, asMethod), @.made + 1)]
      ELSE [m1 EXCEPT ![h].fields =
              Append(@, NewFieldConfig(k, MemberMetadata_type(c, k, asMethod), 1))]))

\* MemberMetadata: get fieldConfig(); asMethod says whether the accessor is a
\* MethodMetadata or a PropertyMetadata
MemberMetadata_fieldConfig(m, c, k, asMethod) ==
  With(typeConfig(m, c), LAMBDA m1 :
    With(Reflect_getMetadataOwner(m1, c), LAMBDA h :
      IF HasField(m1[h].fields, k) THEN m1
      ELSE [m1 EXCEPT ![h].fields =
              Append(@, NewFieldConfig(k, MemberMetadata_type(c, k, asMethod), 1))]))

\* ParameterMetadata: get argumentConfig()
ParameterMetadata_argumentConfig(m, c, k, i) ==
  With(MemberMetadata_fieldConfig(m, c, k, TRUE), LAMBDA m1 :
    With(Reflect_getMetadataOwner(m1, c), LAMBDA h :
      With(FieldIndex(m1[h].fields, k), LAMBDA fi :
        IF i \in DOMAIN m1[h].fields[fi].arguments THEN m1
        ELSE [m1 EXCEPT ![h].fields[fi].arguments =
                (i :> NewArgumentConfig(ParameterMetadata_type(c, k, i), 1)) @@ @])))

\* the records a decorator reaches, read from a store
TypeConfigOf(m, c) == m[Reflect_getMetadataOwner(m, c)]
HasFieldConfig(m, c, k) == TypeConfigOf(m, c).defined /\ HasField(TypeConfigOf(m, c).fields, k)
FieldConfigOf(m, c, k) == TypeConfigOf(m, c).fields[FieldIndex(TypeConfigOf(m, c).fields, k)]
HasArgumentConfig(m, c, k, i) ==
  HasFieldConfig(m, c, k) /\ i \in DOMAIN FieldConfigOf(m, c, k).arguments
ArgumentConfigOf(m, c, k, i) == FieldConfigOf(m, c, k).arguments[i]

\* <accessor>.<attr> = val on a TypeConfig, a FieldConfig, an ArgumentConfig
SetTypeAttr(m, c, attr, val) ==
  With(typeConfig(m, c), LAMBDA m1 :
    With(Reflect_getMetadataOwner(m1, c), LAMBDA h :
      [m1 EXCEPT ![h][attr] = val]))

\* the assignment made on every FieldConfig of the class instead of the one
\* the accessor returned
SetFieldAttr_all(m, c, k, asMethod, attr, val) ==
  With(MemberMetadata_fieldConfig(m, c, k, asMethod), LAMBDA m1 :
    With(Reflect_getMetadataOwner(m1, c), LAMBDA h :
      [m1 EXCEPT ![h].fields = [i \in DOMAIN @ |-> [@[i] EXCEPT ![attr] = val]]]))

SetFieldAttr(m, c, k, asMethod, attr, val) ==
  With(MemberMetadata_fieldConfig(m, c, k, asMethod), LAMBDA m1 :
    With(Reflect_getMetadataOwner(m1, c), LAMBDA h :
      With(FieldIndex(m1[h].fields, k), LAMBDA fi :
        [m1 EXCEPT ![h].fields[fi][attr] = val])))

SetArgAttr(m, c, k, i, attr, val) ==
  With(ParameterMetadata_argumentConfig(m, c, k, i), LAMBDA m1 :
    With(Reflect_getMetadataOwner(m1, c), LAMBDA h :
      With(FieldIndex(m1[h].fields, k), LAMBDA fi :
        [m1 EXCEPT ![h].fields[fi].arguments[i][attr] = val])))

---------------------------------------------------------------------------
(* Building engine types.  st = [meta, cache, objects] is the program      *)
(* state threaded through the calls; a call returns [st, ok, res], ok      *)
(* FALSE when it threw.  busy is the set of classes whose typeOf call is   *)
(* on the stack: part_000's typeOf entered again for one of them recurses  *)
(* without end, which the engine ends with a RangeError.  A value that is  *)
(* neither an engine type nor a constructor (undefined, say) makes the     *)
(* reflection API throw a TypeError.                                       *)

Ret(st, v) == [st |-> st, ok |-> TRUE, res |-> v]
Throw(st) == [st |-> st, ok |-> FALSE, res |-> Undef]
\* r, and then F on its outcome unless r threw
Then(r, F(_)) == IF r.ok THEN F(r) ELSE r

\* isType without the GraphQLObjectType test
isType_noObject(t) ==
  t.kind \in {"Scalar", "Interface", "Union", "Enum", "InputObject", "List", "NonNull"}

isType(t) ==
  t.kind \in {"Scalar", "Object", "Interface", "Union", "Enum", "InputObject",
              "List", "NonNull"}

RECURSIVE reduceModifiers_right(_, _)
\* modifiers.reduceRight(..., t): the first modifier ends up outermost
reduceModifiers_right(t, modifiers) ==
  IF modifiers = <<>> THEN t
  ELSE IF Head(modifiers) = "LIST"
       THEN GraphQLList(reduceModifiers_right(t, Tail(modifiers)))
       ELSE GraphQLNonNull(reduceModifiers_right(t, Tail(modifiers)))

RECURSIVE reduceModifiers(_, _)
\* modifiers.reduce(..., t)
reduceModifiers(t, modifiers) ==
  IF modifiers = <<>> THEN t
  ELSE reduceModifiers(
         IF Head(modifiers) = "LIST" THEN GraphQLList(t) ELSE GraphQLNonNull(t),
         Tail(modifiers))

\* Object.assign.apply(null, [{}].concat(list)): a later entry of the same
\* name replaces an earlier one
RECURSIVE Object_assign(_)
Object_assign(list) ==
  IF list = <<>> THEN <<>>
  ELSE (list[Len(list)].name :> list[Len(list)].config)
         @@ Object_assign(SubSeq(list, 1, Len(list) - 1))

RECURSIVE ForIn(_, _, _)
\* part_000: for (let propertyKey in this.fields): the own string keys in
\* insertion order, then those of the prototype chain that are not shadowed;
\* each with the FieldConfig this.fields[propertyKey] reads
ForIn(m, c, seen) ==
  SelectSeq(m[c].fields, LAMBDA f : f.propertyKey \notin SymbolKeys
                                    /\ f.propertyKey \notin seen)
    \o (IF m[c].parent = NoClass THEN <<>>
        ELSE ForIn(m, m[c].parent,
                   seen \cup {m[c].fields[i].propertyKey : i \in 1..Len(m[c].fields)}))

\* index.ts: Object.keys(this.fields).map(key => this.fields[key])
OwnKeys(m, c) == SelectSeq(m[c].fields, LAMBDA f : f.propertyKey \notin SymbolKeys)

RECURSIVE TypeConfig_description(_, _)
\* this.description, read through the prototype chain of the TypeConfig
TypeConfig_description(m, c) ==
  IF m[c].description # Undefined \/ m[c].parent = NoClass THEN m[c].description
  ELSE TypeConfig_description(m, m[c].parent)

RECURSIVE typeOfRec(_, _, _)
RECURSIVE getArgumtentConfigAndIndexMap(_, _, _, _, _)
RECURSIVE fieldListLoop(_, _, _, _)

applyModifiers(st, t, modifiers, busy) ==
  Then(typeOfRec(st, t, busy), LAMBDA r :
    Ret(r.st, reduceModifiers(r.res, modifiers)))

ArgumentConfig_toConfig(st, a, busy) ==
  Then(applyModifiers(st, a.type, a.typeModifiers, busy), LAMBDA r :
    Ret(r.st, [name |-> a.name,
               config |-> [type |-> r.res,
                           defaultValue |-> a.defaultValue,
                           description |-> a.description]]))

\* Object.keys(this.arguments).forEach(...): integer keys come in ascending
\* order; from is the next index to look at
getArgumtentConfigAndIndexMap(st, arguments, from, acc, busy) ==
  IF \A i \in DOMAIN arguments : i < from
  THEN Ret(st, [args |-> Object_assign(acc),
                indexMap |-> [i \in DOMAIN arguments |-> arguments[i].name]])
  ELSE IF from \notin DOMAIN arguments
  THEN getArgumtentConfigAndIndexMap(st, arguments, from + 1, acc, busy)
  ELSE Then(ArgumentConfig_toConfig(st, arguments[from], busy), LAMBDA r :
         getArgumtentConfigAndIndexMap(r.st, arguments, from + 1,
                                       Append(acc, r.res), busy))

FieldConfig_toConfig(st, f, busy) ==
  Then(applyModifiers(st, f.type, f.typeModifiers, busy), LAMBDA r1 :
    Then(getArgumtentConfigAndIndexMap(r1.st, f.arguments, 0, <<>>, busy), LAMBDA r2 :
      Ret(r2.st,
          [name |-> f.name,
           config |-> [type |-> r1.res,
                       args |-> r2.res.args,
                       description |-> f.description,
                       resolve |-> impl = "part_000",
                       propertyKey |-> IF impl = "part_000" THEN f.propertyKey
                                       ELSE Undefined,
                       indexMap |-> IF impl = "part_000" THEN r2.res.indexMap
                                    ELSE <<>>]])))

\* fieldList.push(this.fields[propertyKey].toConfig()) for every key
fieldListLoop(st, fs, acc, busy) ==
  IF fs = <<>> THEN Ret(st, acc)
  ELSE Then(FieldConfig_toConfig(st, Head(fs), busy), LAMBDA r :
         fieldListLoop(r.st, Tail(fs), Append(acc, r.res), busy))

\* part_000: TypeConfig.toConfig() of class c's record
TypeConfig_toConfig(st, c, busy) ==
  Then(fieldListLoop(st, ForIn(st.meta, c, {}), <<>>, busy), LAMBDA r :
    Ret(r.st, [name |-> st.meta[c].name,
               description |-> TypeConfig_description(st.meta, c),
               fields |-> Object_assign(r.res)]))

\* new GraphQLObjectType(config): the object is appended to the heap
NewObject(st, obj) ==
  Ret([st EXCEPT !.objects = Append(@, obj)], ObjectRef(Len(st.objects) + 1))

\* typeCache.set(ctor, type); return type
CacheSet(n, c) == Ret([n.st EXCEPT !.cache[c] = n.res], n.res)

\* part_000: typeOf
typeOf_part(st, ctor, busy) ==
  IF isType(ctor) THEN Ret(st, ctor)
  ELSE IF ctor.kind # "ctor" THEN Throw(st)
  ELSE IF st.cache[ctor.name] # Undef THEN Ret(st, st.cache[ctor.name])
  ELSE IF ctor.name \in busy THEN Throw(st)
  ELSE Then(TypeConfig_toConfig(
              [st EXCEPT !.meta = ClassMetadata_typeConfig(@, ctor.name)],
              ctor.name, busy \cup {ctor.name}),
            LAMBDA r :
              CacheSet(NewObject(r.st, [ctor |-> ctor.name, owner |-> ctor.name,
                                        resolved |-> TRUE,
                                        name |-> r.res.name,
                                        description |-> r.res.description,
                                        fields |-> r.res.fields]),
                       ctor.name))

\* index.ts: typeOf; the fields thunk of the config is not called here
typeOf_index(st, ctor) ==
  IF isType(ctor) THEN Ret(st, ctor)
  ELSE IF ctor.kind # "ctor" THEN Throw(st)
  ELSE IF st.cache[ctor.name] # Undef THEN Ret(st, st.cache[ctor.name])
  ELSE With([st EXCEPT !.meta = ClassMetadata_typeConfig_index(@, ctor.name)],
            LAMBDA st1 :
              With(Reflect_getMetadataOwner(st1.meta, ctor.name), LAMBDA h :
                NewObject(st1, [ctor |-> ctor.name, owner |-> h, resolved |-> FALSE,
                                name |-> st1.meta[h].name,
                                description |-> st1.meta[h].description,
                                fields |-> <<>>])))

typeOfRec(st, ctor, busy) ==
  IF impl = "part_000" THEN typeOf_part(st, ctor, busy) ELSE typeOf_index(st, ctor)

\* index.ts: the fields thunk of the config built for the record of class h
TypeConfig_fieldsThunk(st, h) ==
  Then(fieldListLoop(st, OwnKeys(st.meta, h), <<>>, {}), LAMBDA r :
    Ret(r.st, Object_assign(r.res)))

---------------------------------------------------------------------------
(* Decorator targets: a class, a member (cls, key) or a parameter          *)
(* (cls, key, idx).                                                        *)

Target(c, k, i) == [cls |-> c, key |-> k, idx |-> i]
IsClassTarget(t) == t.key = ""
IsParamTarget(t) == t.idx >= 0
IsMemberTarget(t) == t.key # "" /\ t.idx < 0

\* the accessor chain a decorator walks for its target
Access(m, t) ==
  IF IsParamTarget(t) THEN ParameterMetadata_argumentConfig(m, t.cls, t.key, t.idx)
  ELSE IF IsMemberTarget(t) THEN MemberMetadata_fieldConfig(m, t.cls, t.key, IsMethod(t.key))
  ELSE typeConfig(m, t.cls)

\* the record the accessor chain returns, read from the store after it ran
Record(m, t) ==
  IF IsParamTarget(t) THEN ArgumentConfigOf(m, t.cls, t.key, t.idx)
  ELSE IF IsMemberTarget(t) THEN FieldConfigOf(m, t.cls, t.key)
  ELSE TypeConfigOf(m, t.cls)

\* <accessor chain>.<attr> = val
Write(m, t, attr, val) ==
  IF IsParamTarget(t) THEN SetArgAttr(m, t.cls, t.key, t.idx, attr, val)
  ELSE IF IsMemberTarget(t) THEN SetFieldAttr(m, t.cls, t.key, IsMethod(t.key), attr, val)
  ELSE SetTypeAttr(m, t.cls, attr, val)

---------------------------------------------------------------------------
(* Calls and their record in the history *)

NoRef == Undef
NoObject ==
  [ctor |-> NoClass, owner |-> NoClass, resolved |-> FALSE, name |-> Undefined,
   description |-> Undefined, fields |-> <<>>]

\* a call: op applied to (cls, key, idx) with a string argument val or a type
\* argument ty
Call(op, c, k, i, val, ty) ==
  [op |-> op, cls |-> c, key |-> k, idx |-> i, val |-> val, ty |-> ty]

\* the history entry of call a: ok and ret are its outcome, before the
\* number of object types that existed when it began, obj the object type it
\* returned
Entry(a, ok, ret, before, obj) ==
  [op |-> a.op, cls |-> a.cls, key |-> a.key, idx |-> a.idx, val |-> a.val,
   ty |-> a.ty, ok |-> ok, ret |-> ret, before |-> before, obj |-> obj]

\* a decorator ran and left the store m2
Decorated(a, m2) ==
  /\ Len(hist) < MaxOps
  /\ meta' = m2
  /\ hist' = Append(hist, Entry(a, TRUE, NoRef, Len(objects), NoObject))
  /\ UNCHANGED <<impl, typeCache, objects>>

\* The calls the program makes, any number of times and in any order.
Decorators ==
  {Call("typeName", c, "", -1, "T", NoRef) : c \in {"A", "B"}}
  \cup {Call("field", "A", "x", -1, Undefined, NoRef),
        Call("field", "A", "x", -1, "y", NoRef),
        Call("field", "A", "m", -1, Undefined, NoRef),
        Call("field", "A", "m", -1, "x", NoRef),
        Call("field", "B", "x", -1, Undefined, NoRef),
        Call("field", "B", "s", -1, Undefined, NoRef),
        Call("field", "B", "s", -1, "f", NoRef),
        Call("field", "C", "u", -1, Undefined, NoRef)}
  \cup {Call("arg", "A", "m", 0, "a", NoRef),
        Call("arg", "A", "m", 0, "b", NoRef),
        Call("arg", "A", "m", 1, "a", NoRef)}
  \cup {Call("description", "A", "", -1, "d", NoRef),
        Call("description", "B", "", -1, "e", NoRef),
        Call("description", "A", "x", -1, "d", NoRef),
        Call("description", "A", "m", -1, "d", NoRef),
        Call("description", "B", "x", -1, "e", NoRef),
        Call("description", "A", "m", 0, "d", NoRef)}
  \cup {Call("defaultValue", "A", "m", 0, "v", NoRef)}
  \cup {Call("type", "A", "x", -1, "", GraphQLFloat),
        Call("type", "A", "x", -1, "", Ctor("A")),
        Call("type", "C", "u", -1, "", GraphQLFloat),
        Call("type", "C", "u", -1, "", Ctor("A")),
        Call("type", "A", "m", 0, "", GraphQLFloat),
        Call("type", "A", "m", 1, "", GraphQLFloat)}
  \cup {Call("typeModifier", "A", "x", -1, md, NoRef) : md \in {"LIST", "NON_NULL"}}
  \cup {Call("typeModifier", "B", "x", -1, md, NoRef) : md \in {"LIST", "NON_NULL"}}
  \cup {Call("typeModifier", "A", "m", 0, md, NoRef) : md \in {"LIST", "NON_NULL"}}

TypeOfArgs ==
  {Ctor(c) : c \in Classes \cup Builtins}
    \cup {GraphQLList(GraphQLString)}
    \cup {ObjectRef(i) : i \in 1..Len(objects)}

---------------------------------------------------------------------------
(* The decorators *)

typeName(a) ==
  /\ a.op = "typeName"
  /\ Decorated(a, SetTypeAttr(meta, a.cls, "name", a.val))

\* part_000: field(name?)
field_part(m, t, name) ==
  IF name # Undefined
  THEN SetFieldAttr(m, t.cls, t.key, IsMethod(t.key), "name", name)
  ELSE MemberMetadata_fieldConfig(m, t.cls, t.key, IsMethod(t.key))

\* index.ts: field(name?)
field_index(m, t, name) ==
  IF name = Undefined THEN m
  ELSE SetFieldAttr(m, t.cls, t.key, TRUE, "name", name)

field(a) ==
  /\ a.op = "field"
  /\ Decorated(a, IF impl = "part_000" THEN field_part(meta, a, a.val)
                  ELSE field_index(meta, a, a.val))

arg(a) ==
  /\ a.op = "arg"
  /\ Decorated(a, SetArgAttr(meta, a.cls, a.key, a.idx, "name", a.val))

description(a) ==
  /\ a.op = "description"
  /\ Decorated(a, Write(meta, a, "description", a.val))

defaultValue(a) ==
  /\ a.op = "defaultValue"
  /\ Decorated(a, SetArgAttr(meta, a.cls, a.key, a.idx, "defaultValue", a.val))

type(a) ==
  /\ a.op = "type"
  /\ Decorated(a, Write(meta, a, "type", a.ty))

\* <accessor chain>.typeModifiers.push(modifier)
Push(m, t, modifier) ==
  Write(m, t, "typeModifiers", Append(Record(m, t).typeModifiers, modifier))

\* list = typeModifier('LIST'), nonNull = typeModifier('NON_NULL')
typeModifier(a) ==
  /\ a.op = "typeModifier"
  /\ Decorated(a, Push(Access(meta, a), a, a.val))

---------------------------------------------------------------------------
(* typeOf, and the engine calling a fields thunk *)

ObjectAt(objs, ref) == IF ref.kind = "Object" THEN objs[ref.id] ELSE NoObject

\* the call typeOf(ctor) ended with outcome r
typeOfDone(ctor, r) ==
  /\ meta' = r.st.meta
  /\ typeCache' = r.st.cache
  /\ objects' = r.st.objects
  /\ hist' = Append(hist, Entry(Call("typeOf", "", "", -1, "", ctor), r.ok, r.res,
                                Len(objects), ObjectAt(r.st.objects, r.res)))

typeOf(ctor) ==
  /\ Len(hist) < MaxOps
  /\ typeOfDone(ctor, typeOfRec([meta |-> meta, cache |-> typeCache,
                                 objects |-> objects], ctor, {}))
  /\ UNCHANGED impl

\* the fields thunk of object type id ended with outcome r
getFieldsDone(id, r) ==
  /\ meta' = r.st.meta
  /\ typeCache' = r.st.cache
  /\ objects' = IF r.ok
                THEN [r.st.objects EXCEPT ![id].resolved = TRUE,
                                          ![id].fields = r.res]
                ELSE r.st.objects
  /\ hist' = Append(hist, Entry(Call("getFields", "", "", -1, "", ObjectRef(id)),
                                r.ok, NoRef, Len(objects), NoObject))

\* index.ts: the engine reads the fields of object type id for the first
\* time, calling the thunk of its config
getFields(id) ==
  /\ Len(hist) < MaxOps
  /\ impl = "index"
  /\ ~objects[id].resolved
  /\ getFieldsDone(id, TypeConfig_fieldsThunk(
                          [meta |-> meta, cache |-> typeCache, objects |-> objects],
                          objects[id].owner))
  /\ UNCHANGED impl

---------------------------------------------------------------------------
(* The engine calling the resolver of a field *)

\* a member of a source value: a function, or anything else
Fn(k) == [kind |-> "function", name |-> k]
Data(k) == [kind |-> "data", name |-> k]

\* the source values the engine resolves fields on
SourceValues ==
  {[k \in {a.key : a \in Decorators} \ {""} |-> IF k \in fs THEN Fn(k) ELSE Data(k)] :
     fs \in {{}, {"m"}, {"x", "m"}}}
\* the GraphQL arguments of a query
ArgValues == {("a" :> "1" @@ "b" :> "2"), ("a" :> "1")}

\* args[name]
Get(args, name) == IF name \in DOMAIN args THEN args[name] ELSE Undefined

\* indexMap.length: one more than the largest index assigned
ArrayLength(indexMap) ==
  IF DOMAIN indexMap = {} THEN 0
  ELSE 1 + CHOOSE i \in DOMAIN indexMap : \A j \in DOMAIN indexMap : j <= i

\* indexMap.map((name) => args[name]), as apply reads it: a hole of the
\* array reads as undefined
\* a wrong variant: the names in parameter order, the holes dropped
argList_dense(indexMap, args) ==
  [p \in 1..Cardinality(DOMAIN indexMap) |->
     Get(args, indexMap[CHOOSE i \in DOMAIN indexMap :
                          Cardinality({j \in DOMAIN indexMap : j < i}) = p - 1])]
argList(indexMap, args) ==
  [p \in 1..ArrayLength(indexMap) |->
     IF p - 1 \in DOMAIN indexMap THEN Get(args, indexMap[p - 1]) ELSE Undefined]

\* property.apply(value, argList)
Applied(property, value, list) ==
  [kind |-> "applied", fn |-> property, this |-> value, argList |-> list]

\* part_000: the resolve function of the field config cfg
FieldConfig_resolve(cfg, value, args) ==
  IF value[cfg.propertyKey].kind = "function"
  THEN Applied(value[cfg.propertyKey], value, argList(cfg.indexMap, args))
  ELSE value[cfg.propertyKey]

\* the engine resolves field f of object type id on a source value
resolve(id, f, value, args) ==
  /\ Len(hist) < MaxOps + MaxResolves
  /\ Cardinality({n \in 1..Len(hist) : hist[n].op = "resolve"}) < MaxResolves
  /\ objects[id].resolved
  /\ objects[id].fields[f].resolve
  /\ hist' = Append(hist,
                    Entry(Call("resolve", "", f, -1, "", ObjectRef(id)), TRUE,
                          [kind |-> "resolved", source |-> value, args |-> args,
                           result |-> FieldConfig_resolve(objects[id].fields[f],
                                                          value, args)],
                          Len(objects), objects[id]))
  /\ UNCHANGED <<impl, meta, typeCache, objects>>

---------------------------------------------------------------------------
(* Specifications *)

\* the Map with Number bound to GraphQLFloat
InitialTypeCache_float ==
  [c \in Classes \cup Builtins |->
     CASE c = "String" -> GraphQLString
       [] c = "Number" -> GraphQLFloat
       [] c = "Boolean" -> GraphQLBoolean
       [] OTHER -> Undef]

\* new Map([[String, GraphQLString], [Number, GraphQLInt], [Boolean, GraphQLBoolean]])
InitialTypeCache ==
  [c \in Classes \cup Builtins |->
     CASE c = "String" -> GraphQLString
       [] c = "Number" -> GraphQLInt
       [] c = "Boolean" -> GraphQLBoolean
       [] OTHER -> Undef]

InitCommon ==
  /\ meta = [c \in Classes |-> NoTypeConfig]
  /\ typeCache = InitialTypeCache
  /\ objects = <<>>
  /\ hist = <<>>

Init == impl = "part_000" /\ InitCommon
InitIndex == impl = "index" /\ InitCommon

Decorate(a) ==
  \/ typeName(a)
  \/ field(a)
  \/ arg(a)
  \/ description(a)
  \/ defaultValue(a)
  \/ type(a)
  \/ typeModifier(a)

Next ==
  \/ \E a \in Decorators : Decorate(a)
  \/ \E ctor \in TypeOfArgs : typeOf(ctor)
  \/ \E id \in 1..Len(objects) : \E f \in DOMAIN objects[id].fields :
       \E value \in SourceValues : \E args \in ArgValues : resolve(id, f, value, args)

NextIndex ==
  \/ \E a \in Decorators : Decorate(a)
  \/ \E ctor \in TypeOfArgs : typeOf(ctor)
  \/ \E id \in 1..Len(objects) : getFields(id)

Spec == Init /\ [][Next]_vars
SpecIndex == InitIndex /\ [][NextIndex]_vars

---------------------------------------------------------------------------
(* Reading the history *)

last == hist[Len(hist)]
IsTypeOfClass(e) == e.op = "typeOf" /\ e.ty.kind = "ctor" /\ e.ty.name \in Classes
\* the call built a new object type and returned it
Built(e) == e.op = "typeOf" /\ e.ok /\ e.ret.kind = "Object" /\ e.ret.id > e.before

\* the entries of the history that are calls of op on (c, k, i)
CallsOf(op, c, k, i) ==
  SelectSeq(hist, LAMBDA e : e.op = op /\ e.cls = c /\ e.key = k /\ e.idx = i)
\* some decorator was applied to the class, member or parameter (c, k, i)
IsDecorated(c, k, i) ==
  \E n \in 1..Len(hist) :
    /\ hist[n].op \notin {"typeOf", "getFields", "resolve"}
    /\ hist[n].cls = c /\ hist[n].key = k /\ hist[n].idx = i

---------------------------------------------------------------------------
(* C1: typeOf memoizes: once typeOf(C) has returned a type for a class C,  *)
(* every later typeOf(C) returns that same object, unchanged by the        *)
(* decorators applied in between, and no second object type exists for C.  *)
C1_Memoized ==
  /\ \A i, j \in 1..Len(hist) :
       (i < j /\ IsTypeOfClass(hist[i]) /\ hist[i].ok
          /\ hist[j].op = "typeOf" /\ hist[j].ty = hist[i].ty)
       => /\ hist[j].ok
          /\ hist[j].ret = hist[i].ret
          /\ hist[i].obj.resolved => hist[j].obj = hist[i].obj
  /\ \A n \in 1..Len(hist) :
       (IsTypeOfClass(hist[n]) /\ hist[n].ok)
       => Cardinality({o \in 1..Len(objects) : objects[o].ctor = hist[n].ty.name}) = 1

\* typeOf(C), a decorator applied to C, typeOf(C) again
C1_Witness ==
  \E i, k, j \in 1..Len(hist) :
    /\ i < k /\ k < j
    /\ IsTypeOfClass(hist[i]) /\ hist[i].ok
    /\ hist[k].op = "field" /\ hist[k].cls = hist[i].ty.name
    /\ hist[j].op = "typeOf" /\ hist[j].ty = hist[i].ty /\ hist[j].ok

---------------------------------------------------------------------------
(* What the decorators applied so far ask for, read from the history alone *)

Members == {a.key : a \in Decorators} \ {""}

RECURSIVE Chain(_)
\* c and its ancestors
Chain(c) == IF c = NoClass THEN {} ELSE {c} \cup Chain(Parent(c))

\* the call that resolved the fields of an object type: typeOf in part_000,
\* the first read of the fields in index.ts
Resolves(e) == (Built(e) /\ e.obj.resolved) \/ (e.op = "getFields" /\ e.ok)
ResolvedObject(e) == IF e.op = "getFields" THEN objects[e.ty.id] ELSE e.obj

\* some decorator was applied to member k of class c or to one of its parameters
Registered(c, k) ==
  \E n \in 1..Len(hist) :
    hist[n].op \notin {"typeOf", "getFields", "resolve"} /\ hist[n].cls = c /\ hist[n].key = k

RECURSIVE Definer(_, _)
\* the nearest class of c's chain that registered member k
Definer(c, k) ==
  IF Registered(c, k) \/ Parent(c) = NoClass THEN c ELSE Definer(Parent(c), k)

\* the members a type for class c is to show
Visible(c) == {k \in Members : \E d \in Chain(c) : Registered(d, k)}

LastOf(calls) == calls[Len(calls)]
Named(c, k, i) ==
  SelectSeq(CallsOf(IF i < 0 THEN "field" ELSE "arg", c, k, i),
            LAMBDA e : e.val # Undefined)
ExpectedName(c, k, i) ==
  IF Named(c, k, i) # <<>> THEN LastOf(Named(c, k, i)).val
  ELSE IF i < 0 THEN k ELSE Undefined
ExpectedDescription(c, k, i) ==
  IF CallsOf("description", c, k, i) # <<>>
  THEN LastOf(CallsOf("description", c, k, i)).val ELSE Undefined
ExpectedDefault(c, k, i) ==
  IF CallsOf("defaultValue", c, k, i) # <<>>
  THEN LastOf(CallsOf("defaultValue", c, k, i)).val ELSE Undefined
\* the explicit type if one was given, else the reflected one
ExpectedBase(c, k, i) ==
  IF CallsOf("type", c, k, i) # <<>> THEN LastOf(CallsOf("type", c, k, i)).ty
  ELSE IF i >= 0 THEN ParameterMetadata_type(c, k, i)
  ELSE MemberMetadata_type(c, k, IsMethod(k))
\* the modifiers in the order their decorators were applied
ExpectedModifiers(c, k, i) ==
  [n \in 1..Len(CallsOf("typeModifier", c, k, i)) |->
     CallsOf("typeModifier", c, k, i)[n].val]

RECURSIVE Wrapped(_, _)
\* the last modifier applied is the outermost
Wrapped(base, mods) ==
  IF mods = <<>> THEN base
  ELSE IF mods[Len(mods)] = "LIST"
       THEN GraphQLList(Wrapped(base, SubSeq(mods, 1, Len(mods) - 1)))
       ELSE GraphQLNonNull(Wrapped(base, SubSeq(mods, 1, Len(mods) - 1)))

ExpectedType(c, k, i) == Wrapped(ExpectedBase(c, k, i), ExpectedModifiers(c, k, i))

ScalarOf(n) ==
  CASE n = "String" -> GraphQLString
    [] n = "Number" -> GraphQLInt
    [] n = "Boolean" -> GraphQLBoolean

RECURSIVE IsTypeFor(_, _)
\* the engine type actual is what the type expression expected resolves to
IsTypeFor(actual, expected) ==
  CASE expected.kind = "ctor" /\ expected.name \in Builtins ->
         actual = ScalarOf(expected.name)
    [] expected.kind = "ctor" /\ expected.name \notin Builtins ->
         actual.kind = "Object" /\ objects[actual.id].ctor = expected.name
    [] expected.kind \in {"List", "NonNull"} ->
         actual.kind = expected.kind /\ IsTypeFor(actual.ofType, expected.ofType)
    [] OTHER -> actual = expected

\* no two members a type for class c is to show ask for the same field name,
\* and each of them has a name
DistinctNames(c) ==
  /\ \A k \in Visible(c) : ExpectedName(Definer(c, k), k, -1) # Undefined
  /\ \A k1, k2 \in Visible(c) :
       k1 # k2 => ExpectedName(Definer(c, k1), k1, -1) # ExpectedName(Definer(c, k2), k2, -1)

---------------------------------------------------------------------------
(* C2: for B extends A, the type built for B has a field for every member  *)
(* registered on A and every member registered on B; for a member          *)
(* registered on both, the field comes from B's own config.  (Stated for   *)
(* string-keyed members that ask for distinct field names.)                *)
C2_Inherits ==
  (Len(hist) > 0 /\ Resolves(last) /\ Parent(ResolvedObject(last).ctor) # NoClass
     /\ DistinctNames(ResolvedObject(last).ctor))
  => \A k \in Visible(ResolvedObject(last).ctor) \ SymbolKeys :
       /\ ExpectedName(Definer(ResolvedObject(last).ctor, k), k, -1)
            \in DOMAIN ResolvedObject(last).fields
       /\ ResolvedObject(last).fields[
            ExpectedName(Definer(ResolvedObject(last).ctor, k), k, -1)].description
            = ExpectedDescription(Definer(ResolvedObject(last).ctor, k), k, -1)
       /\ IsTypeFor(ResolvedObject(last).fields[
                      ExpectedName(Definer(ResolvedObject(last).ctor, k), k, -1)].type,
                    ExpectedType(Definer(ResolvedObject(last).ctor, k), k, -1))

\* a type for B was built after x was registered on both A and B
C2_Witness ==
  /\ Len(hist) > 0 /\ Resolves(last) /\ ResolvedObject(last).ctor = "B"
  /\ Registered("A", "x") /\ Registered("B", "x")
  /\ DistinctNames("B")

---------------------------------------------------------------------------
\* the attribute a decorator call writes
AttrOf(e) ==
  CASE e.op \in {"typeName", "field", "arg"} -> "name"
    [] e.op = "typeModifier" -> "typeModifiers"
    [] OTHER -> e.op
IsDecorator(e) == e.op \notin {"typeOf", "getFields", "resolve"}
\* the call gives its attribute a value
Sets(e) == IsDecorator(e) /\ ~(e.op = "field" /\ e.val = Undefined)
HasRecord(m, t) ==
  IF IsParamTarget(t) THEN HasArgumentConfig(m, t.cls, t.key, t.idx)
  ELSE IF IsMemberTarget(t) THEN HasFieldConfig(m, t.cls, t.key)
  ELSE TypeConfigOf(m, t.cls).defined
\* the values later calls of the same decorator gave the same attribute
Given(n) ==
  {IF hist[j].op = "type" THEN hist[j].ty ELSE hist[j].val :
     j \in {j \in n..Len(hist) : hist[j].op = hist[n].op /\ hist[j].key = hist[n].key
                                  /\ hist[j].idx = hist[n].idx}}

(* C3: the accessors create a record lazily and at most once: at any time  *)
(* a class has at most one TypeConfig, a (class, key) at most one          *)
(* FieldConfig and a (class, key, index) at most one ArgumentConfig, each  *)
(* constructed once, so what earlier decorators wrote is still there.      *)
C3_CreatedOnce ==
  /\ \A c \in Classes :
       /\ meta[c].made = IF meta[c].defined THEN 1 ELSE 0
       /\ \A i \in 1..Len(meta[c].fields) :
            /\ meta[c].fields[i].made = 1
            /\ \A j \in 1..Len(meta[c].fields) :
                 meta[c].fields[j].propertyKey = meta[c].fields[i].propertyKey => j = i
            /\ \A a \in DOMAIN meta[c].fields[i].arguments :
                 meta[c].fields[i].arguments[a].made = 1
  /\ \A n \in 1..Len(hist) :
       Sets(hist[n]) =>
         /\ HasRecord(meta, hist[n])
         /\ IF hist[n].op = "typeModifier"
            THEN /\ Len(Record(meta, hist[n]).typeModifiers)
                      >= Len(ExpectedModifiers(hist[n].cls, hist[n].key, hist[n].idx))
                 /\ \E i \in 1..Len(Record(meta, hist[n]).typeModifiers) :
                      Record(meta, hist[n]).typeModifiers[i] = hist[n].val
            ELSE Record(meta, hist[n])[AttrOf(hist[n])] \in Given(n)

\* three different decorators went through the accessors of one parameter
C3_Witness ==
  \E i, j, k \in 1..Len(hist) :
    /\ i < j /\ j < k
    /\ hist[i].op = "arg" /\ hist[j].op = "description" /\ hist[k].op = "typeModifier"
    /\ hist[i].idx = 0 /\ hist[j].idx = 0 /\ hist[k].idx = 0
    /\ ArgumentConfigOf(meta, "A", "m", 0).name = hist[i].val
    /\ ArgumentConfigOf(meta, "A", "m", 0).description = hist[j].val

---------------------------------------------------------------------------
\* a string-keyed member a type for class c is to show, or one of its
\* decorated parameters, has neither an explicit nor a reflected type
Unresolvable(c) ==
  \E k \in Visible(c) \ SymbolKeys :
    \/ ExpectedBase(Definer(c, k), k, -1) = Undef
    \/ \E i \in {0, 1} :
         IsDecorated(Definer(c, k), k, i) /\ ExpectedBase(Definer(c, k), k, i) = Undef

(* C4: when a registered field or argument of a class has no resolvable    *)
(* type, typeOf on that class (which has no type yet) throws, and leaves   *)
(* no type in typeCache for the class.                                     *)
C4_Throws ==
  (Len(hist) > 0 /\ IsTypeOfClass(last) /\ Unresolvable(last.ty.name)
     /\ \A o \in 1..last.before : objects[o].ctor # last.ty.name)
  => ~last.ok /\ typeCache[last.ty.name] = Undef

\* typeOf was called on a class with an untyped field and threw
C4_Witness ==
  Len(hist) > 0 /\ IsTypeOfClass(last) /\ Unresolvable(last.ty.name) /\ ~last.ok

---------------------------------------------------------------------------
\* the decorated parameters of member k of class c
DecoratedParams(c, k) == {i \in {0, 1} : IsDecorated(c, k, i)}

\* every decorated parameter of the members a type for class c is to show
\* was given a name by @arg, and no two of one member the same name
DistinctArgs(c) ==
  \A k \in Visible(c) :
    /\ \A i \in DecoratedParams(Definer(c, k), k) :
         ExpectedName(Definer(c, k), k, i) # Undefined
    /\ \A i, j \in DecoratedParams(Definer(c, k), k) :
         i # j => ExpectedName(Definer(c, k), k, i) # ExpectedName(Definer(c, k), k, j)

\* the name a type for class c is to have
ExpectedTypeName(c) ==
  IF CallsOf("typeName", c, "", -1) # <<>>
  THEN LastOf(CallsOf("typeName", c, "", -1)).val ELSE c

\* the descriptor entry of field k of object type o built for class c is what
\* the decorators on (d, k) and its parameters gave
FieldAsDecorated(o, d, k) ==
  /\ ExpectedName(d, k, -1) \in DOMAIN o.fields
  /\ o.fields[ExpectedName(d, k, -1)].description = ExpectedDescription(d, k, -1)
  /\ DOMAIN o.fields[ExpectedName(d, k, -1)].args
       = {ExpectedName(d, k, i) : i \in DecoratedParams(d, k)}
  /\ \A i \in DecoratedParams(d, k) :
       /\ o.fields[ExpectedName(d, k, -1)].args[ExpectedName(d, k, i)].defaultValue
            = ExpectedDefault(d, k, i)
       /\ o.fields[ExpectedName(d, k, -1)].args[ExpectedName(d, k, i)].description
            = ExpectedDescription(d, k, i)

(* C5: the descriptor of the type built for a class is what the decorators *)
(* accumulated: its name is the class's own name unless @typeName set one  *)
(* on that class; it has exactly one field entry per registered member,    *)
(* keyed by the property key unless @field(name) renamed it, with the      *)
(* member's description; each field's args has exactly one entry per       *)
(* decorated parameter, keyed by its @arg name, with that parameter's      *)
(* defaultValue and description.  (Stated for string-keyed members with    *)
(* distinct field names and named parameters with distinct names.)         *)
C5_Descriptor ==
  (Len(hist) > 0 /\ Resolves(last) /\ DistinctNames(ResolvedObject(last).ctor)
     /\ DistinctArgs(ResolvedObject(last).ctor)
     /\ Visible(ResolvedObject(last).ctor) \cap SymbolKeys = {})
  => /\ ResolvedObject(last).name = ExpectedTypeName(ResolvedObject(last).ctor)
     /\ DOMAIN ResolvedObject(last).fields
          = {ExpectedName(Definer(ResolvedObject(last).ctor, k), k, -1) :
               k \in Visible(ResolvedObject(last).ctor)}
     /\ \A k \in Visible(ResolvedObject(last).ctor) :
          FieldAsDecorated(ResolvedObject(last),
                           Definer(ResolvedObject(last).ctor, k), k)

\* a type was built for a class with a renamed method that has a named
\* parameter
C5_Witness ==
  /\ Len(hist) > 0 /\ Resolves(last) /\ ResolvedObject(last).ctor = "A"
  /\ ExpectedName("A", "m", -1) = "x"
  /\ DecoratedParams("A", "m") # {}
  /\ DistinctNames("A") /\ DistinctArgs("A")

---------------------------------------------------------------------------
\* the value call e gives its attribute, old being the value it had
Written(e, old) ==
  CASE e.op = "type" -> e.ty
    [] e.op = "typeModifier" -> Append(old, e.val)
    [] OTHER -> e.val

\* FieldConfig f became f2 by decorator call e, which went through it iff hit
FieldKept(f, f2, e, hit) ==
  IF ~hit THEN f2 = f
  ELSE IF IsParamTarget(e)
  THEN /\ \A a \in DOMAIN f \ {"arguments"} : f2[a] = f[a]
       /\ DOMAIN f2.arguments = DOMAIN f.arguments \cup {e.idx}
       /\ \A i \in DOMAIN f.arguments \ {e.idx} : f2.arguments[i] = f.arguments[i]
       /\ e.idx \in DOMAIN f.arguments
            => \A a \in DOMAIN f.arguments[e.idx] \ {AttrOf(e)} :
                 f2.arguments[e.idx][a] = f.arguments[e.idx][a]
  ELSE IF Sets(e) THEN \A a \in DOMAIN f \ {AttrOf(e)} : f2[a] = f[a]
  ELSE f2 = f

\* TypeConfig tc of class c became tc2 by decorator call e, whose accessor
\* chain ended in the TypeConfig of class h
TypeConfigKept(tc, tc2, c, e, h) ==
  IF ~tc.defined
  THEN \/ tc2 = tc
       \/ /\ c \in Chain(e.cls)
          /\ tc2.defined /\ tc2.made = 1
          /\ \A i \in 1..Len(tc2.fields) : c = h /\ tc2.fields[i].propertyKey = e.key
  ELSE /\ tc2.defined /\ tc2.made = tc.made /\ tc2.parent = tc.parent
       /\ \A a \in {"name", "description"} :
            (c = h /\ IsClassTarget(e) /\ a = AttrOf(e)) \/ tc2[a] = tc[a]
       /\ Len(tc2.fields) >= Len(tc.fields)
       /\ \A i \in 1..Len(tc.fields) :
            FieldKept(tc.fields[i], tc2.fields[i], e,
                      c = h /\ tc.fields[i].propertyKey = e.key)
       /\ \A i \in (Len(tc.fields) + 1)..Len(tc2.fields) :
            c = h /\ tc2.fields[i].propertyKey = e.key

\* the type modifiers the member or parameter record that call e targets had
\* in the TypeConfig of class h of store m: none if the record was not there
OldModifiers(m, h, e) ==
  IF ~(m[h].defined /\ HasField(m[h].fields, e.key)) THEN <<>>
  ELSE IF ~IsParamTarget(e) THEN m[h].fields[FieldIndex(m[h].fields, e.key)].typeModifiers
  ELSE IF e.idx \in DOMAIN m[h].fields[FieldIndex(m[h].fields, e.key)].arguments
  THEN m[h].fields[FieldIndex(m[h].fields, e.key)].arguments[e.idx].typeModifiers
  ELSE <<>>

\* decorator call e took the store from m to m2
WroteOnly(m, m2, e) ==
  /\ \A c \in Classes :
       TypeConfigKept(m[c], m2[c], c, e, Reflect_getMetadataOwner(m2, e.cls))
  /\ Sets(e) => /\ HasRecord(m2, e)
                /\ Record(m2, e)[AttrOf(e)]
                     = Written(e, OldModifiers(m, Reflect_getMetadataOwner(m2, e.cls), e))

(* C6: a decorator writes only the one attribute it names, on the one      *)
(* record it targets (@typeName, @field(name), @arg(name): the name;       *)
(* @description, @defaultValue, @type: that attribute; @list, @nonNull:    *)
(* one appended type modifier); every other attribute of that record,      *)
(* every other record, typeCache and the object types are left unchanged.  *)
C6_WritesOne ==
  [][(Len(hist') = Len(hist) + 1 /\ IsDecorator(hist'[Len(hist')]))
       => /\ WroteOnly(meta, meta', hist'[Len(hist')])
          /\ UNCHANGED <<typeCache, objects>>]_vars

\* @description was applied to a field that already had a type modifier, a
\* sibling field and an argument
C6_Witness ==
  /\ Len(hist) = 3 /\ last.op = "description" /\ last.cls = "A" /\ last.key = "m"
  /\ last.idx = -1
  /\ HasFieldConfig(meta, "A", "x") /\ HasArgumentConfig(meta, "A", "m", 0)
  /\ FieldConfigOf(meta, "A", "x").typeModifiers # <<>>
  /\ FieldConfigOf(meta, "A", "m").description = last.val

---------------------------------------------------------------------------
\* the step is a call of typeOf
IsTypeOfStep == Len(hist') = Len(hist) + 1 /\ hist'[Len(hist')].op = "typeOf"

(* C8: typeOf applied to a value that is already an engine type returns    *)
(* that same object and changes nothing: the metadata, typeCache and the   *)
(* object types are as before.                                             *)
C8_EngineType ==
  [][(IsTypeOfStep /\ hist'[Len(hist')].ty.kind \in
                        {"Scalar", "List", "NonNull", "Object"})
       => /\ hist'[Len(hist')].ok
          /\ hist'[Len(hist')].ret = hist'[Len(hist')].ty
          /\ UNCHANGED <<meta, typeCache, objects>>]_vars

\* typeOf was applied to an object type that typeOf built, after a decorator
\* was applied to its class
C8_Witness ==
  /\ Len(hist) = 3 /\ last.op = "typeOf" /\ last.ty.kind = "Object"
  /\ last.ok /\ last.ret = last.ty
  /\ IsDecorator(hist[2]) /\ hist[2].cls = objects[last.ty.id].ctor

(* C9: typeOf(String), typeOf(Number) and typeOf(Boolean) are the engine's *)
(* String, Int and Boolean scalars, in every state; and no call replaces   *)
(* an entry of typeCache, so this stays true however often and in whatever *)
(* order typeOf is called.                                                 *)
C9_Builtins ==
  /\ [](/\ typeCache["String"] = GraphQLString
        /\ typeCache["Number"] = GraphQLInt
        /\ typeCache["Boolean"] = GraphQLBoolean
        /\ \A n \in 1..Len(hist) :
             (hist[n].op = "typeOf" /\ hist[n].ty.kind = "ctor"
                /\ hist[n].ty.name \in Builtins)
             => hist[n].ok /\ hist[n].ret = ScalarOf(hist[n].ty.name))
  /\ [][\A c \in DOMAIN typeCache :
          typeCache[c] # Undef => typeCache'[c] = typeCache[c]]_vars

\* typeOf(Number) was called after typeOf had built and cached a class type
C9_Witness ==
  /\ Len(hist) >= 2 /\ last.op = "typeOf" /\ last.ty = Ctor("Number")
  /\ last.ret = GraphQLInt
  /\ \E n \in 1..(Len(hist) - 1) : Built(hist[n]) /\ typeCache[hist[n].ty.name] = hist[n].ret

---------------------------------------------------------------------------
\* @field() with no name was applied to member k of class c
FieldApplied(c, k) ==
  \E n \in 1..Len(hist) :
    hist[n].op = "field" /\ hist[n].val = Undefined /\ hist[n].cls = c /\ hist[n].key = k

(* C7: @field() with no name registers the member as a field of its class: *)
(* a FieldConfig for the property key exists from then on, and a type      *)
(* built for the class has a field named by the property key (unless a     *)
(* @field(name) renamed it) whose type is the reflected type of the        *)
(* property or the reflected return type of the method (unless @type gave  *)
(* one), wrapped by its modifiers.  (Stated for string-keyed members.)     *)
C7_FieldRegisters ==
  /\ \A c \in Classes : \A k \in Members \ SymbolKeys :
       FieldApplied(c, k) => HasFieldConfig(meta, c, k)
  /\ (Len(hist) > 0 /\ Resolves(last) /\ DistinctNames(ResolvedObject(last).ctor))
     => \A k \in Members \ SymbolKeys :
          FieldApplied(ResolvedObject(last).ctor, k)
          => /\ ExpectedName(ResolvedObject(last).ctor, k, -1)
                  \in DOMAIN ResolvedObject(last).fields
             /\ IsTypeFor(ResolvedObject(last).fields[
                            ExpectedName(ResolvedObject(last).ctor, k, -1)].type,
                          ExpectedType(ResolvedObject(last).ctor, k, -1))

\* a type was built for a class after @field() was applied to a property and
\* to a method of it and to nothing else
C7_Witness ==
  /\ Len(hist) = 3 /\ Resolves(last) /\ ResolvedObject(last).ctor = "A"
  /\ hist[1].op = "field" /\ hist[2].op = "field"
  /\ FieldApplied("A", "x") /\ FieldApplied("A", "m")

---------------------------------------------------------------------------
\* field k of object type o, registered by class d, and its arguments have
\* the types the decorators on (d, k) ask for
TypesAsDecorated(o, d, k) ==
  /\ ExpectedName(d, k, -1) \in DOMAIN o.fields
  /\ IsTypeFor(o.fields[ExpectedName(d, k, -1)].type, ExpectedType(d, k, -1))
  /\ \A i \in DecoratedParams(d, k) :
       /\ ExpectedName(d, k, i) \in DOMAIN o.fields[ExpectedName(d, k, -1)].args
       /\ IsTypeFor(o.fields[ExpectedName(d, k, -1)].args[ExpectedName(d, k, i)].type,
                    ExpectedType(d, k, i))

(* C10: the schema type of a field or an argument is its base type (the    *)
(* explicit @type if one was given, else the reflected type, resolved by   *)
(* typeOf) wrapped by its list / non-null modifiers in the order their     *)
(* decorators were applied: the first applied is innermost, the last       *)
(* outermost.                                                              *)
C10_Wrapped ==
  (Len(hist) > 0 /\ Resolves(last) /\ DistinctNames(ResolvedObject(last).ctor)
     /\ DistinctArgs(ResolvedObject(last).ctor))
  => \A k \in Visible(ResolvedObject(last).ctor) \ SymbolKeys :
       TypesAsDecorated(ResolvedObject(last),
                        Definer(ResolvedObject(last).ctor, k), k)

\* a type was built with a field, or an argument, that two different
\* modifiers were applied to
C10_Witness ==
  /\ Len(hist) > 0 /\ Resolves(last) /\ ResolvedObject(last).ctor = "A"
  /\ DistinctNames("A") /\ DistinctArgs("A")
  /\ \E k \in Visible("A") : \E i \in {-1, 0} :
       /\ Len(ExpectedModifiers("A", k, i)) = 2
       /\ ExpectedModifiers("A", k, i)[1] # ExpectedModifiers("A", k, i)[2]

---------------------------------------------------------------------------
\* the store decorator call a leaves when applied to store m
Apply(m, a) ==
  CASE a.op = "typeName" -> SetTypeAttr(m, a.cls, "name", a.val)
    [] a.op = "field" -> IF impl = "part_000" THEN field_part(m, a, a.val)
                         ELSE field_index(m, a, a.val)
    [] a.op = "arg" -> SetArgAttr(m, a.cls, a.key, a.idx, "name", a.val)
    [] a.op = "description" -> Write(m, a, "description", a.val)
    [] a.op = "defaultValue" -> SetArgAttr(m, a.cls, a.key, a.idx, "defaultValue", a.val)
    [] a.op = "type" -> Write(m, a, "type", a.ty)
    [] a.op = "typeModifier" -> Push(Access(m, a), a, a.val)

\* two decorator calls on the same member, or the same parameter, that set
\* different attributes
SameTarget(a, b) ==
  a.cls = b.cls /\ a.key = b.key /\ a.idx = b.idx /\ a.key # "" /\ AttrOf(a) # AttrOf(b)

(* C11: decorators that set different attributes of one member, or of one  *)
(* parameter, commute: whenever a decorator b is applied, then for every   *)
(* decorator a on the same target that sets another attribute, applying a  *)
(* after b leaves the same store as applying b after a, hence the same     *)
(* field config and the same type built from it.                           *)
C11_Commute ==
  [][(Len(hist') = Len(hist) + 1 /\ IsDecorator(hist'[Len(hist')]))
       => \E b \in Decorators :
            /\ hist'[Len(hist')] = Entry(b, TRUE, NoRef, Len(objects), NoObject)
            /\ meta' = Apply(meta, b)
            /\ \A a \in Decorators :
                 SameTarget(a, b) => Apply(meta', a) = Apply(Apply(meta, a), b)]_vars

\* @type, then @field(name), then a modifier were applied to one property
C11_Witness ==
  /\ Len(hist) = 3
  /\ hist[1].op = "type" /\ hist[2].op = "field" /\ hist[3].op = "typeModifier"
  /\ hist[2].val # Undefined
  /\ SameTarget(hist[1], hist[2]) /\ SameTarget(hist[2], hist[3])
  /\ FieldConfigOf(meta, "A", "x").type = hist[1].ty
  /\ FieldConfigOf(meta, "A", "x").name = hist[2].val

---------------------------------------------------------------------------
\* ArgumentConfig g is what the decorators applied to parameter i of member k
\* of class c themselves ask for
ArgumentAlone(g, c, k, i) ==
  /\ g.name = ExpectedName(c, k, i)
  /\ g.description = ExpectedDescription(c, k, i)
  /\ g.defaultValue = ExpectedDefault(c, k, i)
  /\ g.type = ExpectedBase(c, k, i)
  /\ g.typeModifiers = ExpectedModifiers(c, k, i)

\* FieldConfig f is what the decorators applied to member f.propertyKey of
\* class c and to its parameters themselves ask for
FieldAlone(f, c) ==
  /\ f.name = ExpectedName(c, f.propertyKey, -1)
  /\ f.description = ExpectedDescription(c, f.propertyKey, -1)
  /\ f.type = ExpectedBase(c, f.propertyKey, -1)
  /\ f.typeModifiers = ExpectedModifiers(c, f.propertyKey, -1)
  /\ DOMAIN f.arguments = DecoratedParams(c, f.propertyKey)
  /\ \A i \in DOMAIN f.arguments : ArgumentAlone(f.arguments[i], c, f.propertyKey, i)

\* the TypeConfig of class c is what the decorators applied to c itself and
\* to c's own members and parameters ask for
DecoratedAlone(c) ==
  meta[c].defined
  => /\ meta[c].name = ExpectedTypeName(c)
     /\ meta[c].description = ExpectedDescription(c, "", -1)
     /\ {meta[c].fields[i].propertyKey : i \in 1..Len(meta[c].fields)}
          = {k \in Members : Registered(c, k)}
     /\ \A i \in 1..Len(meta[c].fields) : FieldAlone(meta[c].fields[i], c)

\* the classes that have a subclass
Superclasses == {Parent(c) : c \in Classes} \ {NoClass}

(* C12: decorating a subclass leaves the parent's type config unchanged:   *)
(* a decorator applied to B, to a member of B or to a parameter of B       *)
(* changes nothing in A's config (at most it creates A's empty config),    *)
(* and at any time A's name, description, fields and their attributes are  *)
(* what the decorators applied to A itself ask for, as if B had never been *)
(* declared.                                                               *)
C12_ParentUnchanged ==
  /\ [](\A c \in Superclasses : DecoratedAlone(c))
  /\ [][(Len(hist') = Len(hist) + 1 /\ IsDecorator(hist'[Len(hist')]))
          => \A c \in Superclasses :
               Parent(hist'[Len(hist')].cls) = c
               => \/ meta'[c] = meta[c]
                  \/ /\ ~meta[c].defined /\ meta'[c].defined
                     /\ meta'[c].name = c /\ meta'[c].description = Undefined
                     /\ meta'[c].fields = <<>>]_vars

\* A's x was decorated, then B was renamed and B's overriding x decorated
C12_Witness ==
  /\ Len(hist) = 3
  /\ hist[1].cls = "A" /\ hist[1].key = "x" /\ hist[1].op = "description"
  /\ hist[2].cls = "B" /\ hist[2].op = "typeName"
  /\ hist[3].cls = "B" /\ hist[3].key = "x" /\ hist[3].op = "description"
  /\ meta["A"].name = "A" /\ FieldConfigOf(meta, "A", "x").description = hist[1].val
  /\ meta["B"].name = hist[2].val

---------------------------------------------------------------------------
(* C13: typeOf returns a type for every class of a program in which every  *)
(* registered field and argument has a resolvable type, also when a class  *)
(* has a field of its own type or classes refer to each other in a cycle.  *)
(* (A typeOf that recurses without end is ended by the engine's            *)
(* RangeError and returns nothing.)                                        *)
C13_Terminates ==
  (Len(hist) > 0 /\ IsTypeOfClass(last) /\ \A c \in Classes : ~Unresolvable(c))
  => last.ok /\ last.ret.kind = "Object"

\* typeOf was called on a class with a field whose type is the class itself
C13_Witness ==
  /\ Len(hist) > 0 /\ IsTypeOfClass(last) /\ last.ty = Ctor("A")
  /\ \A c \in Classes : ~Unresolvable(c)
  /\ ExpectedBase("A", "x", -1) = Ctor("A")

---------------------------------------------------------------------------
(* What the decorators of a prefix h of the history ask for *)

\* the place in the history of the call that built object type id
BuildPos(id) ==
  CHOOSE n \in 1..Len(hist) :
    hist[n].before < id /\ \A j \in (n + 1)..Len(hist) : hist[j].before >= id
\* the calls made before object type id was built
Before(id) == SubSeq(hist, 1, BuildPos(id) - 1)

RegisteredIn(h, c, k) ==
  \E n \in 1..Len(h) : IsDecorator(h[n]) /\ h[n].cls = c /\ h[n].key = k
RECURSIVE DefinerIn(_, _, _)
DefinerIn(h, c, k) ==
  IF RegisteredIn(h, c, k) \/ Parent(c) = NoClass THEN c ELSE DefinerIn(h, Parent(c), k)
NamedIn(h, c, k, i) ==
  SelectSeq(h, LAMBDA e : e.op = (IF i < 0 THEN "field" ELSE "arg") /\ e.cls = c
                          /\ e.key = k /\ e.idx = i /\ e.val # Undefined)
NameIn(h, c, k, i) ==
  IF NamedIn(h, c, k, i) # <<>> THEN LastOf(NamedIn(h, c, k, i)).val
  ELSE IF i < 0 THEN k ELSE Undefined
DecoratedParamsIn(h, c, k) ==
  {i \in {0, 1} : \E n \in 1..Len(h) :
     IsDecorator(h[n]) /\ h[n].cls = c /\ h[n].key = k /\ h[n].idx = i}
\* the string-keyed members that a type for class c shows under field name f
MembersNamed(h, c, f) ==
  {k \in Members \ SymbolKeys :
     /\ \E d \in Chain(c) : RegisteredIn(h, d, k)
     /\ NameIn(h, DefinerIn(h, c, k), k, -1) = f}

\* resolver call r did what the decorators of h on member k of class d ask
ResolvedAs(r, h, d, k) ==
  IF r.source[k].kind # "function" THEN r.result = r.source[k]
  ELSE /\ r.result.kind = "applied"
       /\ r.result.fn = r.source[k]
       /\ r.result.this = r.source
       /\ \A i \in DecoratedParamsIn(h, d, k) :
            NameIn(h, d, k, i) # Undefined
            => /\ i + 1 \in DOMAIN r.result.argList
               /\ r.result.argList[i + 1]
                    = (IF NameIn(h, d, k, i) \in DOMAIN r.args
                       THEN r.args[NameIn(h, d, k, i)] ELSE Undefined)
       /\ \A p \in DOMAIN r.result.argList :
            p - 1 \notin DecoratedParamsIn(h, d, k) => r.result.argList[p] = Undefined

(* C14: the resolver of a field reads the member under the field's         *)
(* property key on the source value; a member that is not a function is    *)
(* returned as is; a function is called with the source value as this,     *)
(* its i-th positional argument being the GraphQL argument named by @arg   *)
(* on parameter i, and undefined at undecorated positions, in whatever     *)
(* order the parameter decorators were applied.                            *)
C14_Resolver ==
  \A n \in 1..Len(hist) :
    hist[n].op = "resolve"
    => \A k \in MembersNamed(Before(hist[n].ty.id), hist[n].obj.ctor, hist[n].key) :
         Cardinality(MembersNamed(Before(hist[n].ty.id), hist[n].obj.ctor,
                                  hist[n].key)) = 1
         => ResolvedAs(hist[n].ret, Before(hist[n].ty.id),
                       DefinerIn(Before(hist[n].ty.id), hist[n].obj.ctor, k), k)

\* parameter 1 was named before parameter 0, and the method was called with
\* both arguments in their positions
C14_Witness ==
  /\ Len(hist) = 4 /\ last.op = "resolve"
  /\ hist[1].op = "arg" /\ hist[1].idx = 1 /\ hist[2].op = "arg" /\ hist[2].idx = 0
  /\ hist[1].val = "a" /\ hist[2].val = "b"
  /\ last.ret.args = ("a" :> "1" @@ "b" :> "2")
  /\ last.ret.result.kind = "applied"
  /\ last.ret.result.argList = <<"2", "1">>

\* only parameter 1 was decorated: position 0 receives undefined
C14_WitnessHole ==
  /\ Len(hist) > 0 /\ last.op = "resolve" /\ last.ret.result.kind = "applied"
  /\ Len(last.ret.result.argList) = 2
  /\ last.ret.result.argList[1] = Undefined /\ last.ret.result.argList[2] = "1"

====
